---- MODULE Spec2Model ----
(***************************************************************************)
(* Blind Maze (src/src/index.tsx): the seed-derived maze solution, the     *)
(* attempt evaluator, the leaderboard read-modify-write, the mock wallet   *)
(* and the React component's handlers with their asynchronous              *)
(* continuations.                                                          *)
(*                                                                         *)
(* Numbers.  Scores are kept in tenths of a percent (0..1000): the code    *)
(* returns Math.round(finalScore * 10) / 10.  The wallet is kept in        *)
(* tenths of a WLD.  JavaScript numbers are IEEE doubles; the places where *)
(* the double arithmetic differs from integer arithmetic (the LCG product, *)
(* Math.pow) are computed here as the doubles compute them.                *)
(***************************************************************************)
EXTENDS Integers, Sequences, FiniteSets

\* ------------------------------------------------------------------------
\* CONFIG (index.tsx:7-19)
\* ------------------------------------------------------------------------
ATTEMPT_COST == 1
MAZE_DURATION_HOURS == 12
STEPS_PER_ATTEMPT == 25
ATTEMPTS_PER_MAZE == 5
\* CURVE_EXPONENT is 3.5; the model works with the square of the curved
\* score, so it carries twice the exponent.
CURVE_EXPONENT_X2 == 7
\* baseScore = consecutiveRatio * 0.7 + totalRatio * 0.3, weights in tenths
CONSECUTIVE_WEIGHT == 7
TOTAL_WEIGHT == 3
\* the near-perfect bonus is capped at 99.9
NEAR_PERFECT_CAP == 999
\* "Keep top 100"
LEADERBOARD_SIZE == 100
\* mockWorldSDK.balance: 5.0
MOCK_BALANCE == 50

Directions == {0, 1, 2}

Min(a, b) == IF a <= b THEN a ELSE b
Max(a, b) == IF a >= b THEN a ELSE b

\* ------------------------------------------------------------------------
\* Natural numbers beyond 32 bits: little-endian sequences of limbs in base
\* 10000, without leading zero limbs (zero is the empty sequence).
\* ------------------------------------------------------------------------
LimbBase == 10000

RECURSIVE BigTrim(_)
BigTrim(a) ==
  IF a = <<>> THEN <<>>
  ELSE IF a[Len(a)] = 0 THEN BigTrim(SubSeq(a, 1, Len(a) - 1))
  ELSE a

RECURSIVE BigFromCarry(_)
BigFromCarry(c) ==
  IF c = 0 THEN <<>> ELSE <<c % LimbBase>> \o BigFromCarry(c \div LimbBase)

BigFromSmall(n) == BigFromCarry(n)

\* a * m + carry, for 0 <= m < LimbBase
RECURSIVE BigMulCarry(_, _, _)
BigMulCarry(a, m, carry) ==
  IF a = <<>> THEN BigFromCarry(carry)
  ELSE LET v == Head(a) * m + carry
       IN <<v % LimbBase>> \o BigMulCarry(Tail(a), m, v \div LimbBase)

BigMulSmall(a, m) == BigTrim(BigMulCarry(a, m, 0))

RECURSIVE BigPowSmall(_, _)
BigPowSmall(m, e) ==
  IF e = 0 THEN <<1>> ELSE BigMulSmall(BigPowSmall(m, e - 1), m)

\* compare from the most significant limb down
RECURSIVE BigLeqFrom(_, _, _)
BigLeqFrom(a, b, i) ==
  IF i = 0 THEN TRUE
  ELSE IF a[i] # b[i] THEN a[i] < b[i]
  ELSE BigLeqFrom(a, b, i - 1)

BigLeq(a, b) ==
  IF Len(a) # Len(b) THEN Len(a) < Len(b) ELSE BigLeqFrom(a, b, Len(a))

\* ------------------------------------------------------------------------
\* evaluateAttempt (index.tsx:57-98)
\* ------------------------------------------------------------------------
\* playerMoves[i] of a JavaScript array, as the empty sequence when i is
\* past the end (undefined) and <<v>> otherwise: undefined === undefined
\* holds, undefined === v does not.  Sequences here are 1-based, the code's
\* index i is position i + 1.
At(arr, i) == IF i + 1 <= Len(arr) THEN <<arr[i + 1]>> ELSE <<>>

\* first loop: count matches from the start, break at the first mismatch
RECURSIVE consecutiveFrom(_, _, _)
consecutiveFrom(playerMoves, solution, i) ==
  IF i < STEPS_PER_ATTEMPT /\ At(playerMoves, i) = At(solution, i)
  THEN 1 + consecutiveFrom(playerMoves, solution, i + 1)
  ELSE 0

consecutiveMatches(playerMoves, solution) ==
  consecutiveFrom(playerMoves, solution, 0)

\* second loop: count every matching position
RECURSIVE totalFrom(_, _, _)
totalFrom(playerMoves, solution, i) ==
  IF i >= STEPS_PER_ATTEMPT THEN 0
  ELSE (IF At(playerMoves, i) = At(solution, i) THEN 1 ELSE 0)
       + totalFrom(playerMoves, solution, i + 1)

totalMatches(playerMoves, solution) == totalFrom(playerMoves, solution, 0)

\* baseScore = (c / STEPS) * 0.7 + (t / STEPS) * 0.3 = baseNumerator / baseDenominator
baseNumerator(c, t) == CONSECUTIVE_WEIGHT * c + TOTAL_WEIGHT * t
baseDenominator == 10 * STEPS_PER_ATTEMPT

\* Math.round(Math.pow(baseScore, 3.5) * 100 * 10) is the k with
\* k - 1/2 <= 1000 * baseScore^3.5 < k + 1/2; squaring (both sides are
\* non-negative for k >= 1):  (2k-1)^2 * den^7 <= 4 * 10^6 * num^7.
\* The double computation rounds to the same k: over all (c, t) the exact
\* value stays more than 0.0005 away from every k + 1/2.
denominatorPower == BigPowSmall(baseDenominator, CURVE_EXPONENT_X2)
curvedSquaredLhs(k) ==
  BigMulSmall(BigMulSmall(denominatorPower, 2 * k - 1), 2 * k - 1)
curvedSquaredRhs(num) ==
  BigMulSmall(BigMulSmall(BigMulSmall(BigPowSmall(num, CURVE_EXPONENT_X2),
                                      4), 1000), 1000)

\* rhs is curvedSquaredRhs of the numerator
reachesTenth(k, rhs) ==
  k = 0 \/ BigLeq(curvedSquaredLhs(k), rhs)

\* the largest k in lo..hi with reachesTenth(k, rhs); reachesTenth(lo, rhs) holds
RECURSIVE largestTenth(_, _, _)
largestTenth(rhs, lo, hi) ==
  IF lo = hi THEN lo
  ELSE LET mid == (lo + hi + 1) \div 2
       IN IF reachesTenth(mid, rhs) THEN largestTenth(rhs, mid, hi)
          ELSE largestTenth(rhs, lo, mid - 1)

\* Math.round(curvedScore * 10), curvedScore = baseScore^3.5 * 100
curvedScore(c, t) ==
  largestTenth(curvedSquaredRhs(baseNumerator(c, t)), 0, 1000)

\* bonus = (t - STEPS * 0.9) / (STEPS * 0.1) * 5, in tenths
nearPerfectBonus(t) ==
  ((10 * t - 9 * STEPS_PER_ATTEMPT) * 50) \div STEPS_PER_ATTEMPT

\* (a variant without the perfect-match branch)
finalScoreNoPerfect(c, t) ==
  IF 10 * t >= 9 * STEPS_PER_ATTEMPT
  THEN Min(NEAR_PERFECT_CAP, curvedScore(c, t) + nearPerfectBonus(t))
  ELSE curvedScore(c, t)

\* (a variant whose perfect-match branch starts one match early)
finalScorePerfectEarly(c, t) ==
  IF t >= STEPS_PER_ATTEMPT - 1 THEN 1000
  ELSE IF 10 * t >= 9 * STEPS_PER_ATTEMPT
       THEN Min(NEAR_PERFECT_CAP, curvedScore(c, t) + nearPerfectBonus(t))
       ELSE curvedScore(c, t)

\* (a variant whose near-perfect branch returns the bonus alone)
finalScoreBonusOnly(c, t) ==
  IF t = STEPS_PER_ATTEMPT THEN 1000
  ELSE IF 10 * t >= 9 * STEPS_PER_ATTEMPT
       THEN Min(NEAR_PERFECT_CAP, nearPerfectBonus(t))
       ELSE curvedScore(c, t)

\* lines 88-97: the perfect match, the near-perfect bonus, the rounding
finalScore(c, t) ==
  IF t = STEPS_PER_ATTEMPT THEN 1000
  ELSE IF 10 * t >= 9 * STEPS_PER_ATTEMPT
       THEN Min(NEAR_PERFECT_CAP, curvedScore(c, t) + nearPerfectBonus(t))
       ELSE curvedScore(c, t)

evaluateAttempt(playerMoves, solution) ==
  finalScore(consecutiveMatches(playerMoves, solution),
             totalMatches(playerMoves, solution))

\* ------------------------------------------------------------------------
\* generateMazeSolution (index.tsx:29-42)
\*
\* rng * 1103515245 + 12345 is computed in doubles: the product (up to 61
\* bits) and the sum are each rounded to 53 significant bits, nearest with
\* ties to even, before % 2147483648.  A value is held as the pair <<H, L>>
\* standing for H * 2^31 + L with 0 <= L < 2^31.
\* ------------------------------------------------------------------------
LCG_MULTIPLIER == 1103515245
LCG_INCREMENT == 12345
\* the modulus 2147483648 is 2^31; MaxLow is the largest L
MaxLow == 2147483647

RECURSIVE TwoTo(_)
TwoTo(e) == IF e = 0 THEN 1 ELSE 2 * TwoTo(e - 1)

RECURSIVE BitLength(_)
BitLength(n) == IF n = 0 THEN 0 ELSE 1 + BitLength(n \div 2)

\* the exact product x * y of two numbers below 2^31, from 11-bit limbs
ExactProduct(x, y) ==
  LET b == 2048
      x0 == x % b
      x1 == (x \div b) % b
      x2 == x \div (b * b)
      y0 == y % b
      y1 == (y \div b) % b
      y2 == y \div (b * b)
      c0 == x0 * y0
      c1 == x0 * y1 + x1 * y0
      c2 == x0 * y2 + x1 * y1 + x2 * y0
      c3 == x1 * y2 + x2 * y1
      c4 == x2 * y2
      d0 == c0 % b
      k1 == c1 + c0 \div b
      d1 == k1 % b
      k2 == c2 + k1 \div b
      d2 == k2 % b
      k3 == c3 + k2 \div b
      d3 == k3 % b
      k4 == c4 + k3 \div b
      d4 == k4 % b
      d5 == k4 \div b
  IN <<d2 \div 512 + d3 * 4 + d4 * 8192 + d5 * (8192 * b),
       d0 + d1 * b + (d2 % 512) * (b * b)>>

\* round H * 2^31 + L to 53 significant bits, ties to even
RoundToDouble(v) ==
  LET H == v[1]
      L == v[2]
  IN IF H < TwoTo(22) THEN v
     ELSE LET q == TwoTo(BitLength(H) - 22)
              r == L % q
              down == L - r
              up == 2 * r > q \/ (2 * r = q /\ (down \div q) % 2 = 1)
          IN IF ~up THEN <<H, down>>
             ELSE IF down > MaxLow - q THEN <<H + 1, 0>>
             ELSE <<H, down + q>>

\* v + c for a small c, carrying into H
AddSmall(v, c) ==
  IF v[2] > MaxLow - c THEN <<v[1] + 1, (v[2] - MaxLow) + (c - 1)>>
  ELSE <<v[1], v[2] + c>>

\* rng = (rng * 1103515245 + 12345) % 2147483648
lcgNext(rng) ==
  RoundToDouble(AddSmall(RoundToDouble(ExactProduct(rng, LCG_MULTIPLIER)),
                         LCG_INCREMENT))[2]

\* (a variant that rounds to the nearest integer where the code takes the floor)
lcgDirectionRounded(rng) ==
  (3 * (rng \div 65536) + 16384 + (3 * (rng % 65536)) \div 65536) \div 32768

\* Math.floor((rng / 2147483648) * 3): exact in doubles, 3 * rng < 2^33
lcgDirection(rng) ==
  (3 * (rng \div 65536) + (3 * (rng % 65536)) \div 65536) \div 32768

RECURSIVE solutionFrom(_, _)
solutionFrom(rng, i) ==
  IF i >= STEPS_PER_ATTEMPT THEN <<>>
  ELSE LET next == lcgNext(rng)
       IN <<lcgDirection(next)>> \o solutionFrom(next, i + 1)

generateMazeSolution(seed) == solutionFrom(seed, 0)

\* ------------------------------------------------------------------------
\* getCurrentMazeSeed (index.tsx:47-51), as a function of the clock reading
\* ------------------------------------------------------------------------
MAZE_DURATION_MS == MAZE_DURATION_HOURS * 60 * 60 * 1000

\* (a variant that rounds to the nearest integer where the code takes the floor)
getCurrentMazeSeedRounded(nowMs) ==
  (nowMs + MAZE_DURATION_MS \div 2) \div MAZE_DURATION_MS

\* Math.floor(now / (12 * 60 * 60 * 1000)): for a clock reading below 2^53
\* the double quotient lies within one part in 2^52 of the exact quotient,
\* which is no nearer than 1 / MAZE_DURATION_MS to the next integer, so the
\* floor of the double is the integer quotient
getCurrentMazeSeed(nowMs) == nowMs \div MAZE_DURATION_MS

\* ------------------------------------------------------------------------
\* updateLeaderboard's list computation (index.tsx:138-150)
\* ------------------------------------------------------------------------
\* leaderboard.find(p => p.name === playerName): the first such index, 0 if none
findIndex(lb, playerName) ==
  LET hits == {i \in 1 .. Len(lb) : lb[i].name = playerName}
  IN IF hits = {} THEN 0 ELSE CHOOSE i \in hits : \A j \in hits : i <= j

\* (a variant that overwrites the stored score with the submitted one)
updateOrAddOverwrite(lb, playerName, score) ==
  LET i == findIndex(lb, playerName)
  IN IF i > 0
     THEN [lb EXCEPT ![i].score = score]
     ELSE Append(lb, [name |-> playerName, score |-> score])

\* existing.score = Math.max(existing.score, score), or push
updateOrAdd(lb, playerName, score) ==
  LET i == findIndex(lb, playerName)
  IN IF i > 0
     THEN [lb EXCEPT ![i].score = Max(lb[i].score, score)]
     ELSE Append(lb, [name |-> playerName, score |-> score])

\* leaderboard.sort((a, b) => b.score - a.score): a stable sort, higher
\* scores first, entries of one score in the order they had.  sortScores
\* lays the entries out score by score, from the highest score in scores.
scoresOf(lb) == {lb[i].score : i \in 1 .. Len(lb)}

RECURSIVE sortScores(_, _)
sortScores(lb, scores) ==
  IF scores = {} THEN <<>>
  ELSE LET top == CHOOSE v \in scores : \A w \in scores : w <= v
       IN SelectSeq(lb, LAMBDA e : e.score = top)
            \o sortScores(lb, scores \ {top})

\* (a variant that sorts the other way round)
sortByScoreAscending(lb) ==
  LET d == sortScores(lb, scoresOf(lb))
  IN [i \in 1 .. Len(d) |-> d[Len(d) + 1 - i]]

sortByScoreDescending(lb) == sortScores(lb, scoresOf(lb))

\* (a variant that keeps one entry too many)
keepTopAndOne(lb) == SubSeq(lb, 1, Min(Len(lb), LEADERBOARD_SIZE + 1))

\* leaderboard.slice(0, 100)
keepTop(lb) == SubSeq(lb, 1, Min(Len(lb), LEADERBOARD_SIZE))

\* the list updateLeaderboard hands to storage.set, from the list it read
updatedLeaderboard(lb, playerName, score) ==
  keepTop(sortByScoreDescending(updateOrAdd(lb, playerName, score)))

\* startAttempt's two checks before it pays (index.tsx:245-254)
hasBalance(bal) == bal >= ATTEMPT_COST
\* (a variant that lets one attempt too many through)
hasAttemptsLeftInclusive(data) == data.attemptsUsed <= ATTEMPTS_PER_MAZE
hasAttemptsLeft(data) == data.attemptsUsed < ATTEMPTS_PER_MAZE

\* mockWorldSDK.deductFunds (index.tsx:167-173): whether it pays, and the
\* balance it leaves
deductSucceeds(bal, amount) == bal >= amount
balanceAfterDeduct(bal, amount) ==
  IF deductSucceeds(bal, amount) THEN bal - amount ELSE bal

\* The same wallet in the doubles the code computes with, a double held as
\* the pair <<H, L>> standing for (H * 2^31 + L) * 2^-55: every balance that
\* deductions of such amounts reach is a multiple of 2^-55, and the
\* difference of two of them, rounded to 53 significant bits, is the
\* double that balance - amount yields.
\* 5.0 is 5 * 2^24 * 2^31 * 2^-55
MOCK_BALANCE_DOUBLE == <<5 * TwoTo(24), 0>>
\* the double for 0.1 is 3602879701896397 * 2^-55
ATTEMPT_COST_DOUBLE == <<1677721, 1288490189>>
ZeroDouble == <<0, 0>>
OneDouble == <<TwoTo(24), 0>>

\* a >= b on doubles
GreaterOrEqual(a, b) == a[1] > b[1] \/ (a[1] = b[1] /\ a[2] >= b[2])

\* the exact difference a - b, borrowing from H
Subtract(a, b) ==
  IF a[2] >= b[2] THEN <<a[1] - b[1], a[2] - b[2]>>
  ELSE <<a[1] - b[1] - 1, ((MaxLow - b[2]) + a[2]) + 1>>

\* (a variant that pays without looking at the balance)
deductFundsUnguarded(bal, amount) == TRUE

\* this.balance >= amount (index.tsx:168)
deductFundsSucceeds(bal, amount) == GreaterOrEqual(bal, amount)

\* this.balance -= amount (index.tsx:169)
deductFundsBalance(bal, amount) ==
  IF deductFundsSucceeds(bal, amount)
  THEN RoundToDouble(Subtract(bal, amount))
  ELSE bal

\* finishAttempt's new player record (index.tsx:297-300)
newPlayerData(data, score) ==
  [attemptsUsed |-> data.attemptsUsed + 1,
   bestScore |-> Max(data.bestScore, score)]

\* makeMove's test for the end of the attempt (index.tsx:285)
attemptComplete(newMoves) == Len(newMoves) >= STEPS_PER_ATTEMPT

\* finishAttempt's test for a new personal best (index.tsx:305)
\* (a variant that also takes a score equal to the previous best)
isNewBestOrEqual(score, prevBest) == score >= prevBest

\* score > playerData.bestScore (index.tsx:305)
isNewBest(score, prevBest) == score > prevBest

\* getPlayerData's default (index.tsx:114)
ZeroRecord == [attemptsUsed |-> 0, bestScore |-> 0]

\* ------------------------------------------------------------------------
\* Bounds of the model
\* ------------------------------------------------------------------------
\* the clock advances in steps of half a round, at most MaxTicks times
MaxTicks == 2
\* clicks of the player that may overtake one pending await: a continuation
\* resumes before the player has clicked more than MaxOvertake times since
\* it was suspended
MaxOvertake == 1

TickMs == MAZE_DURATION_MS \div 2
MaxNow == MaxTicks * TickMs
Seeds == 0 .. getCurrentMazeSeed(MaxNow)

\* mockWorldSDK.getUserName (index.tsx:175-177): Math.random picks the number
UserNames == {<<"Player", 0>>, <<"Player", 1>>}

\* The wallet when the session is observed: mockWorldSDK.balance starts at
\* MOCK_BALANCE and every attempt takes ATTEMPT_COST from it; the session is
\* followed from where one or two attempts are left to pay for.
InitialBalances == {ATTEMPT_COST, 2 * ATTEMPT_COST}

\* The player's clicks.  Plan k follows round 0's solution for its first
\* 25 - 5 * (k - 1) steps and turns one direction further on the rest; clicks
\* past the 25th are Left.
planPrefix(k) == STEPS_PER_ATTEMPT - 5 * (k - 1)
Plan(k) ==
  LET sol == generateMazeSolution(0)
  IN [i \in 1 .. STEPS_PER_ATTEMPT + MaxOvertake |->
        IF i > STEPS_PER_ATTEMPT THEN 0
        ELSE IF i <= planPrefix(k) THEN sol[i]
        ELSE (sol[i] + 1) % 3]
PlanIds == {1, 2}
PlayerPlans == {Plan(k) : k \in PlanIds}

IsPrefix(s, t) == Len(s) <= Len(t) /\ s = SubSeq(t, 1, Len(s))
playerMayClick(newMoves) == \E p \in PlayerPlans : IsPrefix(newMoves, p)

\* what window.storage may hold under this round's player key when the page
\* loads: nothing, or the record of ATTEMPTS_PER_MAZE - 1 earlier attempts
\* of this round whose best one followed the last plan
PriorBest == evaluateAttempt(Plan(2), generateMazeSolution(0))
PriorRecords ==
  {ZeroRecord, [attemptsUsed |-> ATTEMPTS_PER_MAZE - 1, bestScore |-> PriorBest]}

RemoveAt(s, i) == SubSeq(s, 1, i - 1) \o SubSeq(s, i + 1, Len(s))

\* a click is one more event that ran before each pending continuation
Overtake(procs) == [i \in DOMAIN procs |-> [procs[i] EXCEPT !.overtaken = @ + 1]]
NotOvertaken(procs) == \A i \in DOMAIN procs : procs[i].overtaken < MaxOvertake

\* ------------------------------------------------------------------------
\* State
\* ------------------------------------------------------------------------
VARIABLES
  \* BlindMazeGame's React state (index.tsx:185-196); currentStep, feedback,
  \* showLeaderboard and mazeTimeLeft only feed the rendering
  gameState, playerMoves, mazeSeed, solution, playerData, lastScore,
  balance, leaderboard,
  \* mockWorldSDK.balance, Date.now(), the alert() dialog on screen
  sdkBalance, now, lastAlert,
  \* window.storage: player_maze_<seed> (an absent key reads as the default
  \* record) and leaderboard_<seed> (an absent key reads as the empty list)
  playerStore, lbStore,
  \* the asynchronous invocations in flight, each with its locals and the
  \* await it is suspended at
  inits, starts, finishes,
  \* history: finishAttempt invocations since the attempt in progress began;
  \* per round, the best score evaluateAttempt returned while it was the
  \* current round
  finishCalls, roundBest,
  \* history: deductFunds calls that returned true; changes of the screen
  \* into playing; per round, the finishAttempt invocations made while it was
  \* the current round, on top of the attempts the stored record counted
  \* when the page loaded
  charges, entries, roundAttempts,
  \* other clients calling updateLeaderboard on round 0 (SpecLB)
  clients, submitted, interfered, lbCalls,
  \* one evaluation of an attempt (SpecEval)
  evMoves, evSolution, evScore,
  \* one read through a storage helper (SpecStore): what window.storage.get
  \* does, and what the helper returned
  stOutcome, stReturned,
  \* calls of generateMazeSolution (SpecGen): the seed, the running call's
  \* rng and solution so far, the solutions returned
  genSeed, genRng, genSolution, genResults,
  \* mockWorldSDK.balance as the double it is, and the last call on
  \* mockWorldSDK with what it returned (SpecWallet)
  sdkBalanceDouble, sdkReturned,
  \* two readings of Date.now(), the seeds getCurrentMazeSeed returned for
  \* them, and the mazeEnd updateMazeTimer computed from the first (SpecClock)
  ckNow, ckSeeds, ckEnd

sessionVars ==
  <<gameState, playerMoves, mazeSeed, solution, playerData, lastScore,
    balance, leaderboard, sdkBalance, now, lastAlert, playerStore,
    inits, starts, finishes, finishCalls, roundBest, charges, entries,
    roundAttempts>>
counters == <<charges, entries, roundAttempts>>
clientVars == <<clients, submitted, interfered, lbCalls>>
evalVars == <<evMoves, evSolution, evScore>>
storeVars == <<stOutcome, stReturned>>
genVars == <<genSeed, genRng, genSolution, genResults>>
walletVars == <<sdkBalanceDouble, sdkReturned>>
clockVars == <<ckNow, ckSeeds, ckEnd>>
auxVars == <<storeVars, genVars, walletVars, clockVars>>
vars == <<sessionVars, lbStore, clientVars, evalVars, auxVars>>

\* ------------------------------------------------------------------------
\* The game session.  A handler runs to its first await in the step that
\* invokes it; every await is a place where other handlers, timers and
\* continuations run before it resumes.  A handler reads the React state of
\* the render it was created in: the current state when it is invoked, and
\* the values it captured then in its continuations.  window.storage serves
\* a get or a set when the awaited promise resolves.
\* ------------------------------------------------------------------------

\* initializeGame up to its first await (index.tsx:212-216)
initializeGameCall ==
  LET seed == getCurrentMazeSeed(now)
  IN /\ mazeSeed' = seed
     /\ solution' = generateMazeSolution(seed)
     /\ inits' = Append(inits, [pc |-> "getPlayerData", seed |-> seed, bal |-> 0, overtaken |-> 0])

\* after construction: the mount effect has called initializeGame
SessionInit ==
  /\ now = 0
  /\ gameState = "menu"
  /\ playerMoves = <<>>
  /\ mazeSeed = getCurrentMazeSeed(0)
  /\ solution = generateMazeSolution(getCurrentMazeSeed(0))
  /\ playerData = ZeroRecord
  /\ lastScore = 0
  /\ balance = 0
  /\ leaderboard = <<>>
  /\ lastAlert = "none"
  /\ inits = <<[pc |-> "getPlayerData", seed |-> getCurrentMazeSeed(0), bal |-> 0,
                overtaken |-> 0]>>
  /\ starts = <<>>
  /\ finishes = <<>>
  /\ finishCalls = 0
  /\ charges = 0
  /\ entries = 0
  /\ sdkBalance \in InitialBalances
  /\ \E prior \in PriorRecords :
       /\ playerStore = [s \in Seeds |->
                           IF s = getCurrentMazeSeed(0) THEN prior ELSE ZeroRecord]
       /\ roundBest = [s \in Seeds |->
                         IF s = getCurrentMazeSeed(0) THEN prior.bestScore ELSE 0]
       /\ roundAttempts = [s \in Seeds |->
                             IF s = getCurrentMazeSeed(0) THEN prior.attemptsUsed
                             ELSE 0]
       /\ lbStore = [s \in Seeds |->
                       IF s = getCurrentMazeSeed(0) /\ prior.bestScore > 0
                       THEN << [name |-> <<"Player", 0>>, score |-> prior.bestScore] >>
                       ELSE <<>>]

\* the clock moves on
Tick ==
  /\ now + TickMs <= MaxNow
  /\ now' = now + TickMs
  /\ UNCHANGED <<gameState, playerMoves, mazeSeed, solution, playerData,
                 lastScore, balance, leaderboard, sdkBalance, lastAlert,
                 playerStore, lbStore, inits, starts, finishes,
                 finishCalls, roundBest, counters>>

\* updateMazeTimer (index.tsx:226-241), run by the interval of the effect
\* that depends on mazeSeed
updateMazeTimer ==
  LET mazeStart == mazeSeed * MAZE_DURATION_MS
      mazeEnd == mazeStart + MAZE_DURATION_MS
      timeLeft == mazeEnd - now
  IN IF timeLeft <= 0
     THEN /\ initializeGameCall
          /\ UNCHANGED <<gameState, playerMoves, playerData, lastScore,
                         balance, leaderboard, sdkBalance, now, lastAlert,
                         playerStore, lbStore, starts, finishes,
                         finishCalls, roundBest, counters>>
     ELSE UNCHANGED <<sessionVars, lbStore>>

\* initializeGame after await getPlayerData(seed) (index.tsx:216-219)
initializeGameGotPlayerData(i) ==
  /\ i \in 1 .. Len(inits)
  /\ inits[i].pc = "getPlayerData"
  /\ playerData' = playerStore[inits[i].seed]
  /\ inits' = [inits EXCEPT ![i].pc = "getBalance", ![i].bal = sdkBalance]
  /\ UNCHANGED <<gameState, playerMoves, mazeSeed, solution, lastScore,
                 balance, leaderboard, sdkBalance, now, lastAlert,
                 playerStore, lbStore, starts, finishes,
                 finishCalls, roundBest, counters>>

\* initializeGame after await getBalance() (index.tsx:219-222)
initializeGameGotBalance(i) ==
  /\ i \in 1 .. Len(inits)
  /\ inits[i].pc = "getBalance"
  /\ balance' = inits[i].bal
  /\ inits' = [inits EXCEPT ![i].pc = "getLeaderboard"]
  /\ UNCHANGED <<gameState, playerMoves, mazeSeed, solution, playerData,
                 lastScore, leaderboard, sdkBalance, now, lastAlert,
                 playerStore, lbStore, starts, finishes,
                 finishCalls, roundBest, counters>>

\* initializeGame after await getLeaderboard(seed) (index.tsx:222-224)
initializeGameGotLeaderboard(i) ==
  /\ i \in 1 .. Len(inits)
  /\ inits[i].pc = "getLeaderboard"
  /\ leaderboard' = lbStore[inits[i].seed]
  /\ inits' = RemoveAt(inits, i)
  /\ UNCHANGED <<gameState, playerMoves, mazeSeed, solution, playerData,
                 lastScore, balance, sdkBalance, now, lastAlert,
                 playerStore, lbStore, starts, finishes,
                 finishCalls, roundBest, counters>>

\* startAttempt up to await deductFunds (index.tsx:243-257); the Start
\* button is on the menu screen.  deductFunds runs to its end in the call.
startAttempt ==
  /\ gameState = "menu"
  /\ IF ~hasBalance(balance)
     THEN /\ lastAlert' = "Insufficient balance"
          /\ UNCHANGED <<sdkBalance, inits, starts, finishes, charges>>
     ELSE IF ~hasAttemptsLeft(playerData)
     THEN /\ lastAlert' = "No attempts remaining"
          /\ UNCHANGED <<sdkBalance, inits, starts, finishes, charges>>
     ELSE /\ NotOvertaken(inits) /\ NotOvertaken(starts) /\ NotOvertaken(finishes)
          /\ sdkBalance' = balanceAfterDeduct(sdkBalance, ATTEMPT_COST)
          /\ charges' = IF deductSucceeds(sdkBalance, ATTEMPT_COST)
                        THEN charges + 1 ELSE charges
          /\ starts' = Append(Overtake(starts),
                         [pc |-> "deductFunds",
                          success |-> deductSucceeds(sdkBalance, ATTEMPT_COST),
                          bal |-> 0,
                          balanceSeen |-> balance,
                          attemptsSeen |-> playerData.attemptsUsed,
                          overtaken |-> 0])
          /\ inits' = Overtake(inits)
          /\ finishes' = Overtake(finishes)
          /\ UNCHANGED lastAlert
  /\ UNCHANGED <<gameState, playerMoves, mazeSeed, solution, playerData,
                 lastScore, balance, leaderboard, now, playerStore, lbStore,
                 finishCalls, roundBest, entries, roundAttempts>>

\* startAttempt after await deductFunds (index.tsx:258-263)
startAttemptPaid(i) ==
  /\ i \in 1 .. Len(starts)
  /\ starts[i].pc = "deductFunds"
  /\ IF ~starts[i].success
     THEN /\ lastAlert' = "Payment failed"
          /\ starts' = RemoveAt(starts, i)
     ELSE /\ starts' = [starts EXCEPT ![i].pc = "getBalance", ![i].bal = sdkBalance]
          /\ UNCHANGED lastAlert
  /\ UNCHANGED <<gameState, playerMoves, mazeSeed, solution, playerData,
                 lastScore, balance, leaderboard, sdkBalance, now,
                 playerStore, lbStore, inits, finishes,
                 finishCalls, roundBest, counters>>

\* startAttempt after await getBalance (index.tsx:263-267)
startAttemptGotBalance(i) ==
  /\ i \in 1 .. Len(starts)
  /\ starts[i].pc = "getBalance"
  /\ balance' = starts[i].bal
  /\ gameState' = "playing"
  /\ playerMoves' = <<>>
  /\ finishCalls' = 0
  /\ entries' = IF gameState # "playing" THEN entries + 1 ELSE entries
  /\ starts' = RemoveAt(starts, i)
  /\ UNCHANGED <<mazeSeed, solution, playerData, lastScore, leaderboard,
                 sdkBalance, now, lastAlert, playerStore, lbStore, inits,
                 finishes, roundBest, charges, roundAttempts>>

\* makeMove (index.tsx:270-290) with finishAttempt up to await
\* savePlayerData (index.tsx:292-302); the direction buttons are on the
\* playing screen
makeMove(direction) ==
  LET newMoves == Append(playerMoves, direction)
      score == evaluateAttempt(newMoves, solution)
      data == newPlayerData(playerData, score)
  IN /\ gameState = "playing"
     /\ playerMayClick(newMoves)
     /\ NotOvertaken(inits) /\ NotOvertaken(starts) /\ NotOvertaken(finishes)
     /\ playerMoves' = newMoves
     /\ inits' = Overtake(inits)
     /\ starts' = Overtake(starts)
     /\ IF attemptComplete(newMoves)
        THEN /\ lastScore' = score
             /\ playerData' = data
             /\ finishes' = Append(Overtake(finishes),
                              [pc |-> "savePlayerData",
                               seed |-> mazeSeed,
                               moves |-> Len(newMoves),
                               score |-> score,
                               prevBest |-> playerData.bestScore,
                               data |-> data,
                               name |-> <<"Player", 0>>,
                               lb |-> <<>>,
                               overtaken |-> 0])
             /\ finishCalls' = finishCalls + 1
             /\ roundBest' = [roundBest EXCEPT ![mazeSeed] = Max(@, score)]
             /\ roundAttempts' = [roundAttempts EXCEPT ![mazeSeed] = @ + 1]
        ELSE /\ finishes' = Overtake(finishes)
             /\ UNCHANGED <<lastScore, playerData, finishCalls, roundBest,
                            roundAttempts>>
     /\ UNCHANGED <<gameState, mazeSeed, solution, balance, leaderboard,
                    sdkBalance, now, lastAlert, playerStore, lbStore, charges,
                    entries>>

\* finishAttempt after await savePlayerData (index.tsx:302-307, 312) and
\* updateLeaderboard up to its await getLeaderboard (index.tsx:136)
finishAttemptSaved(i, playerName) ==
  /\ i \in 1 .. Len(finishes)
  /\ finishes[i].pc = "savePlayerData"
  /\ playerStore' = [playerStore EXCEPT ![finishes[i].seed] = finishes[i].data]
  /\ IF isNewBest(finishes[i].score, finishes[i].prevBest)
     THEN /\ finishes' = [finishes EXCEPT ![i].pc = "getLeaderboard",
                                          ![i].name = playerName]
          /\ UNCHANGED gameState
     ELSE /\ playerName = <<"Player", 0>>
          /\ finishes' = RemoveAt(finishes, i)
          /\ gameState' = "result"
  /\ UNCHANGED <<playerMoves, mazeSeed, solution, playerData, lastScore,
                 balance, leaderboard, sdkBalance, now, lastAlert, lbStore,
                 inits, starts, finishCalls, roundBest, counters>>

\* updateLeaderboard after await getLeaderboard, up to await storage.set
\* (index.tsx:136-153)
finishAttemptGotLeaderboard(i) ==
  /\ i \in 1 .. Len(finishes)
  /\ finishes[i].pc = "getLeaderboard"
  /\ finishes' = [finishes EXCEPT
                    ![i].pc = "setLeaderboard",
                    ![i].lb = updatedLeaderboard(lbStore[finishes[i].seed],
                                                 finishes[i].name,
                                                 finishes[i].score)]
  /\ UNCHANGED <<gameState, playerMoves, mazeSeed, solution, playerData,
                 lastScore, balance, leaderboard, sdkBalance, now, lastAlert,
                 playerStore, lbStore, inits, starts, finishCalls,
                 roundBest, counters>>

\* updateLeaderboard after await storage.set; finishAttempt up to await
\* getLeaderboard (index.tsx:153, 308)
finishAttemptSetLeaderboard(i) ==
  /\ i \in 1 .. Len(finishes)
  /\ finishes[i].pc = "setLeaderboard"
  /\ lbStore' = [lbStore EXCEPT ![finishes[i].seed] = finishes[i].lb]
  /\ finishes' = [finishes EXCEPT ![i].pc = "reloadLeaderboard"]
  /\ UNCHANGED <<gameState, playerMoves, mazeSeed, solution, playerData,
                 lastScore, balance, leaderboard, sdkBalance, now, lastAlert,
                 playerStore, inits, starts, finishCalls,
                 roundBest, counters>>

\* finishAttempt after await getLeaderboard (index.tsx:308-312)
finishAttemptReloaded(i) ==
  /\ i \in 1 .. Len(finishes)
  /\ finishes[i].pc = "reloadLeaderboard"
  /\ leaderboard' = lbStore[finishes[i].seed]
  /\ gameState' = "result"
  /\ finishes' = RemoveAt(finishes, i)
  /\ UNCHANGED <<playerMoves, mazeSeed, solution, playerData, lastScore,
                 balance, sdkBalance, now, lastAlert, playerStore, lbStore,
                 inits, starts, finishCalls, roundBest, counters>>

\* backToMenu (index.tsx:315-319); its button is on the result screen
backToMenu ==
  /\ gameState = "result"
  /\ NotOvertaken(inits) /\ NotOvertaken(starts) /\ NotOvertaken(finishes)
  /\ gameState' = "menu"
  /\ playerMoves' = <<>>
  /\ inits' = Overtake(inits)
  /\ starts' = Overtake(starts)
  /\ finishes' = Overtake(finishes)
  /\ UNCHANGED <<mazeSeed, solution, playerData, lastScore, balance,
                 leaderboard, sdkBalance, now, lastAlert, playerStore,
                 lbStore, finishCalls, roundBest, counters>>

\* alert() (index.tsx:246, 252, 259) blocks the page until the player
\* dismisses the dialog: nothing else runs while it is shown
dismissAlert ==
  /\ lastAlert # "none"
  /\ lastAlert' = "none"
  /\ UNCHANGED <<gameState, playerMoves, mazeSeed, solution, playerData,
                 lastScore, balance, leaderboard, sdkBalance, now,
                 playerStore, lbStore, inits, starts, finishes, finishCalls,
                 roundBest, counters>>

\* the variables of the other specifications, at rest
ClientsIdle ==
  /\ clients = <<>>
  /\ submitted = <<>>
  /\ interfered = FALSE
  /\ lbCalls = 0
EvalIdle ==
  /\ evMoves = <<>>
  /\ evSolution = <<>>
  /\ evScore = <<>>
StoreIdle ==
  /\ stOutcome = <<>>
  /\ stReturned = <<>>
GenIdle ==
  /\ genSeed = 0
  /\ genRng = <<>>
  /\ genSolution = <<>>
  /\ genResults = <<>>
WalletIdle ==
  /\ sdkBalanceDouble = MOCK_BALANCE_DOUBLE
  /\ sdkReturned = <<>>
ClockIdle ==
  /\ ckNow = <<>>
  /\ ckSeeds = <<>>
  /\ ckEnd = <<>>
AuxIdle == StoreIdle /\ GenIdle /\ WalletIdle /\ ClockIdle

Init == SessionInit /\ ClientsIdle /\ EvalIdle /\ AuxIdle

\* a step of the session leaves the other specifications' variables alone
SessionStep == lastAlert = "none" /\ UNCHANGED <<clientVars, evalVars, auxVars>>

Next ==
  \/ dismissAlert /\ UNCHANGED <<clientVars, evalVars, auxVars>>
  \/ SessionStep /\ Tick
  \/ SessionStep /\ updateMazeTimer
  \/ \E i \in 1 .. Len(inits) : SessionStep /\ initializeGameGotPlayerData(i)
  \/ \E i \in 1 .. Len(inits) : SessionStep /\ initializeGameGotBalance(i)
  \/ \E i \in 1 .. Len(inits) : SessionStep /\ initializeGameGotLeaderboard(i)
  \/ SessionStep /\ startAttempt
  \/ \E i \in 1 .. Len(starts) : SessionStep /\ startAttemptPaid(i)
  \/ \E i \in 1 .. Len(starts) : SessionStep /\ startAttemptGotBalance(i)
  \/ \E direction \in Directions : SessionStep /\ makeMove(direction)
  \/ \E i \in 1 .. Len(finishes), playerName \in UserNames :
       SessionStep /\ finishAttemptSaved(i, playerName)
  \/ \E i \in 1 .. Len(finishes) : SessionStep /\ finishAttemptGotLeaderboard(i)
  \/ \E i \in 1 .. Len(finishes) : SessionStep /\ finishAttemptSetLeaderboard(i)
  \/ \E i \in 1 .. Len(finishes) : SessionStep /\ finishAttemptReloaded(i)
  \/ SessionStep /\ backToMenu

Spec == Init /\ [][Next]_vars

\* ------------------------------------------------------------------------
\* Claims about the game session (Spec)
\* ------------------------------------------------------------------------

\* C1: the attemptsUsed held in the component and every attemptsUsed saved
\* under a round's player key stay at or below ATTEMPTS_PER_MAZE.
C1_AttemptsWithinCap ==
  /\ playerData.attemptsUsed <= ATTEMPTS_PER_MAZE
  /\ \A s \in Seeds : playerStore[s].attemptsUsed <= ATTEMPTS_PER_MAZE

\* C2: once no finishAttempt is in flight, the bestScore saved under each
\* round's key is the largest score evaluateAttempt returned for the
\* attempts finalized while that round was the current one (0 if none).
C2_BestScoreIsRoundMaximum ==
  finishes = <<>> => \A s \in Seeds : playerStore[s].bestScore = roundBest[s]

\* C3: finishAttempt is invoked at most once for the attempt in progress,
\* and only with a move list of exactly STEPS_PER_ATTEMPT choices.
C3_FinalizedExactlyOnce ==
  /\ finishCalls <= 1
  /\ \A i \in 1 .. Len(finishes) : finishes[i].moves = STEPS_PER_ATTEMPT

\* C4: a step takes the game into playing only as the end of a startAttempt
\* invocation that saw balance >= ATTEMPT_COST and attemptsUsed <
\* ATTEMPTS_PER_MAZE and whose deductFunds returned true; a startAttempt
\* that is refused (an alert is raised, or deductFunds returns false) leaves
\* the game state, the moves, both balances and the player record, in
\* memory and in the store, as they were.
startAttemptFrame ==
  <<gameState, playerMoves, balance, sdkBalance, playerData, playerStore>>

C4_StartAttemptContract ==
  [][ /\ (gameState # "playing" /\ gameState' = "playing")
          => \E i \in 1 .. Len(starts) :
               /\ starts[i].pc = "getBalance"
               /\ starts[i].success
               /\ starts[i].balanceSeen >= ATTEMPT_COST
               /\ starts[i].attemptsSeen < ATTEMPTS_PER_MAZE
               /\ starts' = RemoveAt(starts, i)
      /\ (lastAlert = "none" /\ lastAlert' # "none")
          => UNCHANGED startAttemptFrame
      /\ (Len(starts') > Len(starts) /\ ~starts'[Len(starts')].success)
          => UNCHANGED startAttemptFrame
    ]_vars

\* C4's case: one startAttempt has put the game into playing and another
\* one, whose deductFunds returned false, has just been refused
C4_Witness == gameState = "playing" /\ lastAlert = "Payment failed"

\* ------------------------------------------------------------------------
\* Several clients calling updateLeaderboard on one round (SpecLB)
\* ------------------------------------------------------------------------

\* concurrent updateLeaderboard calls in flight, and calls in a run
MaxClients == 2
MaxLbCalls == 3

\* The round whose leaderboard the clients share
LbSeed == 0

\* A leaderboard of LEADERBOARD_SIZE players as earlier calls left it:
\* four players on each score evaluateAttempt gives for k matches in a row
\* followed by misses only, from k = 25 at the top down to k = 1
FullBoard ==
  [i \in 1 .. LEADERBOARD_SIZE |->
     [name |-> <<"Player", 100 + i>>,
      score |-> finalScore(STEPS_PER_ATTEMPT - (i - 1) \div 4,
                           STEPS_PER_ATTEMPT - (i - 1) \div 4)]]

\* what window.storage may hold under the round's leaderboard key when the
\* first call arrives: nothing, a full board, a board with one place left
InitialBoards ==
  {<<>>, FullBoard, SubSeq(FullBoard, 1, LEADERBOARD_SIZE - 1)}

\* the names the calls come under (the full board's last player and two
\* players new to it) and the scores they bring
LbCallers ==
  {FullBoard[LEADERBOARD_SIZE].name, <<"Player", 0>>, <<"Player", 1>>}
LbScores == {finalScore(20, 20), finalScore(25, 25)}
LbNames == {FullBoard[i].name : i \in 1 .. LEADERBOARD_SIZE} \cup LbCallers

\* the score a board holds for a name, -1 if it has no entry for it
EntryScore(lb, playerName) ==
  IF findIndex(lb, playerName) = 0 THEN -1
  ELSE lb[findIndex(lb, playerName)].score

\* the game session at rest on its menu while the clients run
SessionAtRest ==
  /\ gameState = "menu"
  /\ playerMoves = <<>>
  /\ mazeSeed = LbSeed
  /\ solution = generateMazeSolution(LbSeed)
  /\ playerData = ZeroRecord
  /\ lastScore = 0
  /\ balance = MOCK_BALANCE
  /\ leaderboard = <<>>
  /\ sdkBalance = MOCK_BALANCE
  /\ now = 0
  /\ lastAlert = "none"
  /\ playerStore = [s \in Seeds |-> ZeroRecord]
  /\ inits = <<>>
  /\ starts = <<>>
  /\ finishes = <<>>
  /\ finishCalls = 0
  /\ roundBest = [s \in Seeds |-> 0]
  /\ charges = 0
  /\ entries = 0
  /\ roundAttempts = [s \in Seeds |-> 0]

InitLB ==
  /\ SessionAtRest
  /\ EvalIdle
  /\ AuxIdle
  /\ \E board \in InitialBoards :
       /\ lbStore = [s \in Seeds |-> IF s = LbSeed THEN board ELSE <<>>]
       /\ submitted = [n \in LbNames |-> EntryScore(board, n)]
  /\ clients = <<>>
  /\ interfered = FALSE
  /\ lbCalls = 0

\* updateLeaderboard up to await getLeaderboard (index.tsx:135-136, 122-125)
updateLeaderboardCall(playerName, score) ==
  /\ Len(clients) < MaxClients
  /\ lbCalls < MaxLbCalls
  /\ clients' = Append(clients, [pc |-> "getLeaderboard", name |-> playerName,
                                  score |-> score, lb |-> <<>>, stale |-> FALSE])
  /\ submitted' = [submitted EXCEPT ![playerName] = Max(@, score)]
  /\ lbCalls' = lbCalls + 1
  /\ UNCHANGED <<lbStore, interfered>>

\* updateLeaderboard after await getLeaderboard, up to await storage.set
\* (index.tsx:136-153)
updateLeaderboardGot(i) ==
  /\ i \in 1 .. Len(clients)
  /\ clients[i].pc = "getLeaderboard"
  /\ clients' = [clients EXCEPT
                   ![i].pc = "setLeaderboard",
                   ![i].lb = updatedLeaderboard(lbStore[LbSeed], clients[i].name,
                                                clients[i].score)]
  /\ UNCHANGED <<lbStore, submitted, interfered, lbCalls>>

\* the calls left in flight when call i's storage.set lands: those that
\* have read the board and not yet written now hold an outdated copy
afterSet(cs, i) ==
  RemoveAt([j \in DOMAIN cs |->
              IF j # i /\ cs[j].pc = "setLeaderboard"
              THEN [cs[j] EXCEPT !.stale = TRUE] ELSE cs[j]], i)

\* updateLeaderboard after await storage.set (index.tsx:152-154)
updateLeaderboardSet(i) ==
  /\ i \in 1 .. Len(clients)
  /\ clients[i].pc = "setLeaderboard"
  /\ lbStore' = [lbStore EXCEPT ![LbSeed] = clients[i].lb]
  /\ clients' = afterSet(clients, i)
  /\ interfered' = (interfered \/ \E j \in 1 .. Len(clients) :
                                     j # i /\ clients[j].pc = "setLeaderboard")
  /\ UNCHANGED <<submitted, lbCalls>>

LbStep == UNCHANGED <<sessionVars, evalVars, auxVars>>

NextLB ==
  \/ \E playerName \in LbCallers, score \in LbScores :
       LbStep /\ updateLeaderboardCall(playerName, score)
  \/ \E i \in 1 .. Len(clients) : LbStep /\ updateLeaderboardGot(i)
  \/ \E i \in 1 .. Len(clients) : LbStep /\ updateLeaderboardSet(i)

SpecLB == InitLB /\ [][NextLB]_vars

\* ------------------------------------------------------------------------
\* Claims about the leaderboard (SpecLB)
\* ------------------------------------------------------------------------

uniqueNames(lb) == Cardinality({lb[i].name : i \in 1 .. Len(lb)}) = Len(lb)
sortedDescending(lb) ==
  \A i \in 1 .. Len(lb) - 1 : lb[i].score >= lb[i + 1].score

\* C5: whatever the order of the clients' reads and writes, the leaderboard
\* stored for a round has at most one entry per player name, at most
\* LEADERBOARD_SIZE entries, and is sorted by score, highest first.
C5_LeaderboardWellFormed ==
  \A s \in Seeds :
    /\ uniqueNames(lbStore[s])
    /\ Len(lbStore[s]) <= LEADERBOARD_SIZE
    /\ sortedDescending(lbStore[s])

\* C5's case: writes of interleaved calls have landed on a full board, a
\* new player is on it and the player who was last has been cut off
C5_Witness ==
  /\ interfered
  /\ Len(lbStore[LbSeed]) = LEADERBOARD_SIZE
  /\ EntryScore(lbStore[LbSeed], <<"Player", 0>>) >= 0
  /\ EntryScore(lbStore[LbSeed], FullBoard[LEADERBOARD_SIZE].name) = -1

\* C6: when a call whose name already has an entry writes the board it read
\* (no other write landed in between), the entry keeps its score if the
\* submitted score is lower or equal and takes the submitted score if it is
\* higher, and every other entry keeps its score.
C6_ExistingEntryUpdate ==
  [][ \A i \in 1 .. Len(clients) :
        ( /\ clients[i].pc = "setLeaderboard"
          /\ ~clients[i].stale
          /\ clients' = afterSet(clients, i)
          /\ lbStore'[LbSeed] = clients[i].lb
          /\ EntryScore(lbStore[LbSeed], clients[i].name) >= 0 )
        => LET old == lbStore[LbSeed]
               new == lbStore'[LbSeed]
               stored == EntryScore(old, clients[i].name)
           IN /\ EntryScore(new, clients[i].name) =
                   (IF clients[i].score <= stored THEN stored ELSE clients[i].score)
              /\ \A j \in 1 .. Len(old) :
                   old[j].name # clients[i].name
                     => EntryScore(new, old[j].name) = old[j].score
    ]_vars

\* C6's case: a call under a name whose entry scores more than the call
\* brings has read the board and computed the list it is about to write
C6_Witness ==
  \E i \in 1 .. Len(clients) :
    /\ clients[i].pc = "setLeaderboard"
    /\ ~clients[i].stale
    /\ EntryScore(lbStore[LbSeed], clients[i].name) > clients[i].score
    /\ EntryScore(clients[i].lb, clients[i].name) =
         EntryScore(lbStore[LbSeed], clients[i].name)

\* a name ranks within the top LEADERBOARD_SIZE when fewer than
\* LEADERBOARD_SIZE other names have a best score at least as high
ranksInTop(playerName) ==
  /\ submitted[playerName] >= 0
  /\ Cardinality({m \in LbNames \ {playerName} :
                    submitted[m] >= submitted[playerName]}) < LEADERBOARD_SIZE

bestScoresKept ==
  \A n \in LbNames :
    ranksInTop(n) => EntryScore(lbStore[LbSeed], n) = submitted[n]

\* C7 as stated: once no updateLeaderboard call is in flight, every name
\* whose best submitted score ranks within the top LEADERBOARD_SIZE has an
\* entry with that score, whatever the order of the calls' reads and writes.
C7_BestScoresKeptAlways == clients = <<>> => bestScoresKept

\* C7, amended: the same, for runs in which no call's write landed between
\* another call's read and its write.
C7_BestScoresKeptUninterfered ==
  (clients = <<>> /\ ~interfered) => bestScoresKept

\* C7's case: the MaxLbCalls calls of a run are done, none interfered with
\* another, and the two new players hold the scores they brought
C7_Witness ==
  /\ clients = <<>>
  /\ ~interfered
  /\ lbCalls = MaxLbCalls
  /\ submitted[<<"Player", 0>>] = finalScore(25, 25)
  /\ EntryScore(lbStore[LbSeed], <<"Player", 0>>) = finalScore(25, 25)
  /\ EntryScore(lbStore[LbSeed], <<"Player", 1>>) = finalScore(20, 20)

\* ------------------------------------------------------------------------
\* One evaluation of an attempt (SpecEval)
\* ------------------------------------------------------------------------

\* solutions: those generateMazeSolution gives for the seeds 0 .. MaxEvalSeed
\* and the three that repeat one direction
MaxEvalSeed == 1
EvalSolutions ==
  {generateMazeSolution(seed) : seed \in 0 .. MaxEvalSeed}
    \cup {[i \in 1 .. STEPS_PER_ATTEMPT |-> v] : v \in Directions}

\* the (consecutiveMatches, totalMatches) pairs an attempt of 25 choices
\* can have: the position after the matching prefix is a miss
MatchCounts ==
  {<<c, t>> \in (0 .. STEPS_PER_ATTEMPT) \X (0 .. STEPS_PER_ATTEMPT) :
     IF c = STEPS_PER_ATTEMPT THEN t = STEPS_PER_ATTEMPT
     ELSE c <= t /\ t < STEPS_PER_ATTEMPT}

\* An attempt of 25 choices with c matches in a row from the start and t
\* matches in all: the t - c matches after the first miss come right after
\* it, or (late) at the end; a miss is the solution's direction turned by d.
attemptWith(sol, c, t, late, d) ==
  [i \in 1 .. STEPS_PER_ATTEMPT |->
     IF \/ i <= c
        \/ ~late /\ i > c + 1 /\ i <= t + 1
        \/ late /\ i > c + 1 /\ i > STEPS_PER_ATTEMPT - (t - c)
     THEN sol[i]
     ELSE (sol[i] + d) % 3]

EvalAttempts(sol) ==
  {attemptWith(sol, ct[1], ct[2], late, d) :
     ct \in MatchCounts, late \in BOOLEAN, d \in {1, 2}}

\* attempts that are not 25 choices long: none, the solution's first 24, the
\* solution and one more choice (what makeMove passes on a 26th click)
MisSizedAttempts(sol) ==
  {<<>>, SubSeq(sol, 1, STEPS_PER_ATTEMPT - 1), Append(sol, 0)}

InitEval ==
  /\ SessionAtRest
  /\ ClientsIdle
  /\ AuxIdle
  /\ lbStore = [s \in Seeds |-> <<>>]
  /\ evSolution \in EvalSolutions
  /\ evMoves \in EvalAttempts(evSolution) \cup MisSizedAttempts(evSolution)
  /\ evScore = <<>>

\* a call of evaluateAttempt (index.tsx:57-98) on the attempt
evaluate ==
  /\ evScore = <<>>
  /\ evScore' = <<evaluateAttempt(evMoves, evSolution)>>
  /\ UNCHANGED <<evMoves, evSolution, sessionVars, lbStore, clientVars, auxVars>>

NextEval == evaluate

SpecEval == InitEval /\ [][NextEval]_vars

\* ------------------------------------------------------------------------
\* Claims about evaluateAttempt (SpecEval); scores are in tenths
\* ------------------------------------------------------------------------

\* evScore holds the value the call returned, once it has
evaluated == evScore # <<>>

\* C8: evaluateAttempt returns exactly 100 (1000 tenths) for an attempt of
\* 25 choices that equals the solution at every position.
C8_PerfectScoresHundred ==
  (evaluated /\ evMoves = evSolution) => evScore[1] = 1000

\* C8's case: the attempt that repeats a generated solution was evaluated
C8_Witness ==
  /\ evaluated
  /\ evMoves = evSolution
  /\ evSolution = generateMazeSolution(MaxEvalSeed)

\* C9: an attempt with fewer than 25 matching positions scores at most 99.9
\* (999 tenths), the near-perfect bonus path included, and no attempt
\* scores below 0 or above 100.
C9_BelowHundredUnlessPerfect ==
  evaluated =>
    /\ 0 <= evScore[1] /\ evScore[1] <= 1000
    /\ totalMatches(evMoves, evSolution) < STEPS_PER_ATTEMPT
         => evScore[1] <= NEAR_PERFECT_CAP

\* C9's case: an attempt with 24 matches, the best one short of perfect,
\* was evaluated on the bonus path
C9_Witness ==
  /\ evaluated
  /\ consecutiveMatches(evMoves, evSolution) = STEPS_PER_ATTEMPT - 1
  /\ totalMatches(evMoves, evSolution) = STEPS_PER_ATTEMPT - 1
  /\ evScore[1] > curvedScore(STEPS_PER_ATTEMPT - 1, STEPS_PER_ATTEMPT - 1)

\* the attempts with the evaluated one's match counts or one more of either
nearAttempts ==
  LET c == consecutiveMatches(evMoves, evSolution)
      t == totalMatches(evMoves, evSolution)
  IN {attemptWith(evSolution, ct[1], ct[2], late, d) :
        ct \in {x \in MatchCounts : x[1] \in {c, c + 1} /\ x[2] \in {t, t + 1}},
        late \in BOOLEAN, d \in {1, 2}}

\* C10: against the same solution, an attempt with the same totalMatches
\* and a longer matching prefix scores at least as much as the evaluated
\* one, and so does an attempt with the same consecutiveMatches and more
\* totalMatches.
C10_Monotonic ==
  evaluated =>
    \A other \in nearAttempts :
      LET c == consecutiveMatches(evMoves, evSolution)
          t == totalMatches(evMoves, evSolution)
          c2 == consecutiveMatches(other, evSolution)
          t2 == totalMatches(other, evSolution)
      IN ((t2 = t /\ c2 >= c) \/ (c2 = c /\ t2 >= t))
           => evaluateAttempt(other, evSolution) >= evScore[1]

\* C10's case: an attempt on the bonus path was evaluated that has both an
\* attempt with a longer prefix and one with more matches to compare with
C10_Witness ==
  /\ evaluated
  /\ consecutiveMatches(evMoves, evSolution) = STEPS_PER_ATTEMPT - 4
  /\ totalMatches(evMoves, evSolution) = STEPS_PER_ATTEMPT - 2
  /\ evScore[1] > 0

\* C11: a call of evaluateAttempt returns a score only for an attempt and a
\* solution of exactly STEPS_PER_ATTEMPT choices each (any other call is
\* rejected and returns none).
C11_ScoresOnlyFullLength ==
  evaluated =>
    Len(evMoves) = STEPS_PER_ATTEMPT /\ Len(evSolution) = STEPS_PER_ATTEMPT

\* ------------------------------------------------------------------------
\* One read through getPlayerData or getLeaderboard (SpecStore)
\* ------------------------------------------------------------------------

\* A JSON value: a record (an object with a numeric attemptsUsed and
\* bestScore), a list (an array of name/score entries) or any other value,
\* named by its text.  One layout for all three; the fields of the other
\* shapes are at rest.
recordValue(r) == [shape |-> "record", rec |-> r, list |-> <<>>, lit |-> ""]
listValue(lb) == [shape |-> "list", rec |-> ZeroRecord, list |-> lb, lit |-> ""]
otherValue(t) == [shape |-> "other", rec |-> ZeroRecord, list |-> <<>>, lit |-> t]

\* A stored string, by what JSON.parse does with it: whether it parses, and
\* the value it parses to.
NoText == [parses |-> FALSE, v |-> otherValue("")]
RecordTexts ==
  {[parses |-> TRUE,
    v |-> recordValue([attemptsUsed |-> a, bestScore |-> finalScore(5 * k, 5 * k)])] :
     a \in 0 .. ATTEMPTS_PER_MAZE, k \in 0 .. STEPS_PER_ATTEMPT \div 5}
ListTexts == {[parses |-> TRUE, v |-> listValue(lb)] : lb \in InitialBoards}
OtherTexts ==
  {[parses |-> TRUE, v |-> otherValue(t)] :
     t \in {"null", "42", "{}", "{\"attemptsUsed\":\"five\"}", "[1,2]"}}
UnparseableTexts ==
  {[parses |-> FALSE, v |-> otherValue(t)] : t \in {"", "{\"attemptsUsed\":"}}

\* what await window.storage.get(key, shared) does: it rejects, it resolves
\* with no result, or it resolves with a result holding a stored string
StoreOutcomes ==
  {[kind |-> "rejects", text |-> NoText], [kind |-> "null", text |-> NoText]}
    \cup {[kind |-> "value", text |-> t] :
            t \in RecordTexts \cup ListTexts \cup OtherTexts \cup UnparseableTexts}

\* the body shared by getPlayerData and getLeaderboard (index.tsx:105-114,
\* 123-132): try { result = await get; if (result) return JSON.parse(
\* result.value) } catch {} return the default
readThrough(outcome, default) ==
  IF outcome.kind = "rejects" THEN default
  ELSE IF outcome.kind = "null" THEN default
  ELSE IF ~outcome.text.parses THEN default
  ELSE outcome.text.v

playerDefault == recordValue(ZeroRecord)
leaderboardDefault == listValue(<<>>)
getPlayerData(outcome) == readThrough(outcome, playerDefault)
getLeaderboard(outcome) == readThrough(outcome, leaderboardDefault)

InitStore ==
  /\ SessionAtRest
  /\ ClientsIdle
  /\ EvalIdle
  /\ GenIdle
  /\ WalletIdle
  /\ ClockIdle
  /\ lbStore = [s \in Seeds |-> <<>>]
  /\ stOutcome \in StoreOutcomes
  /\ stReturned = <<>>

StoreStep ==
  UNCHANGED <<stOutcome, sessionVars, lbStore, clientVars, evalVars, genVars,
              walletVars, clockVars>>

getPlayerDataReturns ==
  /\ stReturned = <<>>
  /\ stReturned' = <<[helper |-> "getPlayerData",
                       value |-> getPlayerData(stOutcome)]>>
  /\ StoreStep

getLeaderboardReturns ==
  /\ stReturned = <<>>
  /\ stReturned' = <<[helper |-> "getLeaderboard",
                       value |-> getLeaderboard(stOutcome)]>>
  /\ StoreStep

NextStore == getPlayerDataReturns \/ getLeaderboardReturns

SpecStore == InitStore /\ [][NextStore]_vars

\* the read gave the helper nothing of the shape it is to return
badRead(helper) ==
  \/ stOutcome.kind # "value"
  \/ ~stOutcome.text.parses
  \/ stOutcome.text.v.shape # (IF helper = "getPlayerData" THEN "record" ELSE "list")

\* C12: when the key is absent, the get fails or the stored string is
\* malformed (unparseable, or not of the helper's shape), getPlayerData
\* returns the zero record and getLeaderboard returns the empty list.
C12_DefaultsOnBadRead ==
  (stReturned # <<>> /\ badRead(stReturned[1].helper))
    => stReturned[1].value = (IF stReturned[1].helper = "getPlayerData"
                              THEN playerDefault ELSE leaderboardDefault)

\* ------------------------------------------------------------------------
\* The game session with window.storage.set failing (SpecFail)
\* ------------------------------------------------------------------------

\* savePlayerData's storage.set rejects (index.tsx:117-120, 302): the
\* rejection passes through savePlayerData and ends finishAttempt at its
\* await; nothing after line 302 runs
finishAttemptSaveFails(i) ==
  /\ i \in 1 .. Len(finishes)
  /\ finishes[i].pc = "savePlayerData"
  /\ finishes' = RemoveAt(finishes, i)
  /\ UNCHANGED <<gameState, playerMoves, mazeSeed, solution, playerData,
                 lastScore, balance, leaderboard, sdkBalance, now, lastAlert,
                 playerStore, lbStore, inits, starts, finishCalls, roundBest, counters>>

\* updateLeaderboard's storage.set rejects (index.tsx:153, 307): the
\* rejection passes through updateLeaderboard and ends finishAttempt at its
\* await; nothing after line 307 runs
finishAttemptSetLeaderboardFails(i) ==
  /\ i \in 1 .. Len(finishes)
  /\ finishes[i].pc = "setLeaderboard"
  /\ finishes' = RemoveAt(finishes, i)
  /\ UNCHANGED <<gameState, playerMoves, mazeSeed, solution, playerData,
                 lastScore, balance, leaderboard, sdkBalance, now, lastAlert,
                 playerStore, lbStore, inits, starts, finishCalls, roundBest, counters>>

NextFail ==
  \/ Next
  \/ \E i \in 1 .. Len(finishes) : SessionStep /\ finishAttemptSaveFails(i)
  \/ \E i \in 1 .. Len(finishes) :
       SessionStep /\ finishAttemptSetLeaderboardFails(i)

SpecFail == Init /\ [][NextFail]_vars

\* C13: also when a storage.set of finishAttempt fails, a game that is
\* still in playing with all its moves made has a finishAttempt in flight
\* that will take it to result.
C13_ResultAfterStoreFailure ==
  (gameState = "playing" /\ Len(playerMoves) >= STEPS_PER_ATTEMPT)
    => finishes # <<>>

\* ------------------------------------------------------------------------
\* Calls of generateMazeSolution, one loop iteration a step (SpecGen)
\* ------------------------------------------------------------------------

\* seeds: 0 .. MaxGenSeed, a round seed of the present (RecentSeed * 12 h
\* after 1970 is in November 2023) and the largest seed below 2^31
MaxGenSeed == 3
RecentSeed == 39352
GenSeeds == (0 .. MaxGenSeed) \cup {RecentSeed, MaxLow}
\* calls made on one seed
MaxGenCalls == 2

InitGen ==
  /\ SessionAtRest
  /\ ClientsIdle
  /\ EvalIdle
  /\ StoreIdle
  /\ WalletIdle
  /\ ClockIdle
  /\ lbStore = [s \in Seeds |-> <<>>]
  /\ genSeed \in GenSeeds
  /\ genRng = <<>>
  /\ genSolution = <<>>
  /\ genResults = <<>>

GenStep ==
  UNCHANGED <<genSeed, sessionVars, lbStore, clientVars, evalVars, storeVars,
              walletVars, clockVars>>

\* let rng = seed; const solution = [] (index.tsx:31, 37)
generateStart ==
  /\ genRng = <<>>
  /\ Len(genResults) < MaxGenCalls
  /\ genRng' = <<genSeed>>
  /\ genSolution' = <<>>
  /\ UNCHANGED genResults
  /\ GenStep

\* one iteration: solution.push(Math.floor(lcg() * 3)) (index.tsx:32-40)
generateLoop ==
  /\ genRng # <<>>
  /\ Len(genSolution) < STEPS_PER_ATTEMPT
  /\ genRng' = <<lcgNext(genRng[1])>>
  /\ genSolution' = Append(genSolution, lcgDirection(lcgNext(genRng[1])))
  /\ UNCHANGED genResults
  /\ GenStep

\* return solution (index.tsx:41)
generateReturn ==
  /\ genRng # <<>>
  /\ Len(genSolution) >= STEPS_PER_ATTEMPT
  /\ genResults' = Append(genResults, genSolution)
  /\ genRng' = <<>>
  /\ genSolution' = <<>>
  /\ GenStep

NextGen == generateStart \/ generateLoop \/ generateReturn

SpecGen == InitGen /\ [][NextGen]_vars

\* C14: every call returns exactly STEPS_PER_ATTEMPT values, each in
\* {0,1,2}; all calls on one seed return the same sequence (the one
\* generateMazeSolution computes from the seed alone); and once the first
\* iteration has run the LCG state is in [0, 2^31).
C14_SolutionWellFormed ==
  /\ \A i \in 1 .. Len(genResults) :
       /\ Len(genResults[i]) = STEPS_PER_ATTEMPT
       /\ \A j \in 1 .. Len(genResults[i]) : genResults[i][j] \in Directions
       /\ genResults[i] = genResults[1]
       /\ genResults[i] = generateMazeSolution(genSeed)
  /\ \A j \in 1 .. Len(genSolution) : genSolution[j] \in Directions
  /\ (genRng # <<>> /\ genSolution # <<>>)
       => (0 <= genRng[1] /\ genRng[1] <= MaxLow)

\* C14's case: the largest seed's solution has been returned by
\* MaxGenCalls calls
C14_Witness ==
  /\ genSeed = MaxLow
  /\ Len(genResults) = MaxGenCalls

\* ------------------------------------------------------------------------
\* The round clock: getCurrentMazeSeed on two readings of Date.now() and the
\* round end updateMazeTimer computes from the first seed (SpecClock)
\* ------------------------------------------------------------------------

\* windows 0 .. MaxClockSeed; in each, its first two and its last
\* millisecond and its middle
MaxClockSeed == 3
ClockOffsets == {0, 1, MAZE_DURATION_MS \div 2, MAZE_DURATION_MS - 1}
ClockTimes ==
  {k * MAZE_DURATION_MS + o : k \in 0 .. MaxClockSeed, o \in ClockOffsets}

InitClock ==
  /\ SessionAtRest
  /\ ClientsIdle
  /\ EvalIdle
  /\ StoreIdle
  /\ GenIdle
  /\ WalletIdle
  /\ lbStore = [s \in Seeds |-> <<>>]
  /\ ckNow \in ClockTimes \X ClockTimes
  /\ ckSeeds = <<>>
  /\ ckEnd = <<>>

ClockStep ==
  UNCHANGED <<ckNow, sessionVars, lbStore, clientVars, evalVars, storeVars,
              genVars, walletVars>>

\* getCurrentMazeSeed() at the next reading of the clock (index.tsx:47-51)
getCurrentMazeSeedReturns ==
  /\ Len(ckSeeds) < Len(ckNow)
  /\ ckSeeds' = Append(ckSeeds, getCurrentMazeSeed(ckNow[Len(ckSeeds) + 1]))
  /\ UNCHANGED ckEnd
  /\ ClockStep

\* updateMazeTimer's mazeEnd for the seed of the first reading
\* (index.tsx:228-229)
updateMazeTimerEnd ==
  /\ ckSeeds # <<>>
  /\ ckEnd = <<>>
  /\ LET mazeStart == ckSeeds[1] * MAZE_DURATION_MS
         mazeEnd == mazeStart + MAZE_DURATION_MS
     IN ckEnd' = <<mazeEnd>>
  /\ UNCHANGED ckSeeds
  /\ ClockStep

NextClock == getCurrentMazeSeedReturns \/ updateMazeTimerEnd

SpecClock == InitClock /\ [][NextClock]_vars

\* the window of a seed holds the timestamp t
inWindow(seed, t) ==
  seed * MAZE_DURATION_MS <= t /\ t < seed * MAZE_DURATION_MS + MAZE_DURATION_MS

\* C15: the first reading lies in the window of its seed; a second reading
\* in the same window gets the same seed and one in the following window
\* gets the seed plus one; and the mazeEnd the timer computes from the seed is
\* the first timestamp with the next seed (the millisecond before it still
\* has the seed).
C15_SeedFollowsWindows ==
  /\ ckSeeds # <<>> => inWindow(ckSeeds[1], ckNow[1])
  /\ Len(ckSeeds) = 2 =>
       /\ inWindow(ckSeeds[1], ckNow[2]) => ckSeeds[2] = ckSeeds[1]
       /\ inWindow(ckSeeds[1] + 1, ckNow[2]) => ckSeeds[2] = ckSeeds[1] + 1
  /\ ckEnd # <<>> =>
       /\ getCurrentMazeSeed(ckEnd[1]) = ckSeeds[1] + 1
       /\ getCurrentMazeSeed(ckEnd[1] - 1) = ckSeeds[1]
       /\ \A t \in ClockTimes :
            getCurrentMazeSeed(t) = ckSeeds[1] + 1 => t >= ckEnd[1]

\* C15's case: the last millisecond of a window and the first of the next
\* have been read, the seeds differ by one, and the timer's mazeEnd is the
\* second reading
C15_Witness ==
  /\ Len(ckSeeds) = 2
  /\ ckNow[1] + 1 = ckNow[2]
  /\ ckSeeds[2] = ckSeeds[1] + 1
  /\ ckEnd = <<ckNow[2]>>

\* ------------------------------------------------------------------------
\* The saved records over a session (Spec)
\* ------------------------------------------------------------------------

\* C16: no step of a session lowers the bestScore saved under a round's key.
C16_BestScoreNeverLowered ==
  [][\A s \in Seeds : playerStore'[s].bestScore >= playerStore[s].bestScore]_vars

\* the step is the leaderboard write of the finishAttempt invocation i
writesLeaderboard(i) ==
  /\ finishes[i].pc = "setLeaderboard"
  /\ lbStore' = [lbStore EXCEPT ![finishes[i].seed] = finishes[i].lb]

\* C17: the stored leaderboards change only in the write of a finishAttempt
\* whose score is strictly greater than playerData.bestScore as it was when
\* the attempt was finalized; a finishAttempt whose score is lower or equal
\* never enters updateLeaderboard.
C17_LeaderboardWrittenOnlyOnNewBest ==
  [][/\ lbStore' # lbStore =>
          \E i \in 1 .. Len(finishes) :
            /\ writesLeaderboard(i)
            /\ finishes[i].score > finishes[i].prevBest
     /\ Len(finishes') > Len(finishes) =>
          finishes'[Len(finishes')].prevBest = playerData.bestScore
     /\ \A i \in 1 .. Len(finishes') :
          finishes'[i].pc # "savePlayerData" =>
            finishes'[i].score > finishes'[i].prevBest]_vars

\* C17's case: the fifth attempt of the round scored exactly the previous
\* best, it has been finalized, and the round's leaderboard is as it was
C17_Witness ==
  /\ gameState = "result"
  /\ finishes = <<>>
  /\ finishCalls = 1
  /\ lastScore = PriorBest
  /\ playerData = [attemptsUsed |-> ATTEMPTS_PER_MAZE, bestScore |-> PriorBest]
  /\ playerStore[mazeSeed] = playerData
  /\ lbStore[mazeSeed] = << [name |-> <<"Player", 0>>, score |-> PriorBest] >>

\* ------------------------------------------------------------------------
\* Calls on mockWorldSDK's wallet (SpecWallet)
\* ------------------------------------------------------------------------

\* amounts asked for: nothing, the cost of an attempt (the one the game
\* passes), 1.0 and the whole opening balance
WalletAmounts ==
  {ZeroDouble, ATTEMPT_COST_DOUBLE, OneDouble, MOCK_BALANCE_DOUBLE}

InitWallet ==
  /\ SessionAtRest
  /\ ClientsIdle
  /\ EvalIdle
  /\ StoreIdle
  /\ GenIdle
  /\ ClockIdle
  /\ lbStore = [s \in Seeds |-> <<>>]
  /\ sdkBalanceDouble = MOCK_BALANCE_DOUBLE
  /\ sdkReturned = <<>>

WalletStep ==
  UNCHANGED <<sessionVars, lbStore, clientVars, evalVars, storeVars, genVars,
              clockVars>>

\* mockWorldSDK.getBalance() (index.tsx:163-165); value is what it returned
getBalance ==
  /\ sdkReturned' = <<[call |-> "getBalance", amount |-> ZeroDouble,
                       success |-> TRUE, value |-> sdkBalanceDouble]>>
  /\ UNCHANGED sdkBalanceDouble
  /\ WalletStep

\* mockWorldSDK.deductFunds(amount) (index.tsx:167-173); success is what it
\* returned, value is not used
deductFunds(amount) ==
  /\ sdkBalanceDouble' = deductFundsBalance(sdkBalanceDouble, amount)
  /\ sdkReturned' = <<[call |-> "deductFunds", amount |-> amount,
                       success |-> deductFundsSucceeds(sdkBalanceDouble, amount),
                       value |-> ZeroDouble]>>
  /\ WalletStep

NextWallet == getBalance \/ \E amount \in WalletAmounts : deductFunds(amount)

SpecWallet == InitWallet /\ [][NextWallet]_vars

\* a double that is zero or more
nonNegative(d) == d[1] >= 0 /\ d[2] >= 0 /\ d[2] <= MaxLow

\* C18: a deductFunds call that returns true found the balance at least the
\* amount and leaves it at balance - amount (the double subtraction); one
\* that returns false leaves the balance as it was; getBalance returns the
\* balance and leaves it as it was; and the balance is never negative.
C18_DeductFundsAtomic ==
  [][/\ nonNegative(sdkBalanceDouble) /\ nonNegative(sdkBalanceDouble')
     /\ LET r == sdkReturned'[1]
        IN /\ (r.call = "deductFunds" /\ r.success) =>
                /\ GreaterOrEqual(sdkBalanceDouble, r.amount)
                /\ sdkBalanceDouble' =
                     RoundToDouble(Subtract(sdkBalanceDouble, r.amount))
           /\ (r.call = "deductFunds" /\ ~r.success) =>
                sdkBalanceDouble' = sdkBalanceDouble
           /\ r.call = "getBalance" =>
                /\ r.value = sdkBalanceDouble
                /\ sdkBalanceDouble' = sdkBalanceDouble]_vars

\* C18's case: deductFunds has refused the cost of an attempt with a
\* balance that is not zero (what 5.0 leaves after fifty payments of 0.1)
C18_Witness ==
  /\ sdkReturned # <<>>
  /\ sdkReturned[1].call = "deductFunds"
  /\ sdkReturned[1].amount = ATTEMPT_COST_DOUBLE
  /\ ~sdkReturned[1].success
  /\ sdkBalanceDouble # ZeroDouble

\* ------------------------------------------------------------------------
\* Payments and attempt counts over a session (Spec)
\* ------------------------------------------------------------------------

\* C19: whenever no startAttempt is suspended at an await, the deductFunds
\* calls that returned true are as many as the times the screen went into
\* playing.
C19_ChargedOncePerAttempt ==
  starts = <<>> => charges = entries

\* C20, in the part that does not depend on the order in which two saves
\* land: the attemptsUsed saved under a round's key is never more than the
\* finishAttempt invocations made while that round was the session's current
\* one (on top of what the record held when the page loaded), and the
\* bestScore saved under it is never more than the best score of those
\* invocations; so nothing counted or scored in another round is under it.
C20_NothingOfAnotherRound ==
  \A s \in Seeds :
    /\ playerStore[s].attemptsUsed <= roundAttempts[s]
    /\ playerStore[s].bestScore <= roundBest[s]

\* ------------------------------------------------------------------------
\* The screen over a session (Spec)
\* ------------------------------------------------------------------------

\* C21: every step that changes the screen takes it from menu to playing,
\* from playing to result with the attempt on screen holding its
\* STEPS_PER_ATTEMPT moves, or from result to menu.
C21_ScreenMovesInOrder ==
  [][gameState' # gameState =>
       \/ gameState = "menu" /\ gameState' = "playing"
       \/ /\ gameState = "playing"
          /\ gameState' = "result"
          /\ Len(playerMoves) >= STEPS_PER_ATTEMPT
       \/ gameState = "result" /\ gameState' = "menu"]_vars

====
